---- MODULE Spec2Model ----
(***************************************************************************)
(* Model of the SKU webhook receiver (main.go): the POST /webhook handler, *)
(* its signature check, body parsing and line-item loop, Services.Webhook  *)
(* and the Connection it reads the catalog from.                           *)
(*                                                                         *)
(* Byte strings are TLA+ strings; the octet of a character is looked up in *)
(* the ASCII table.  32-bit words of SHA-256 are pairs <<hi, lo>> of       *)
(* 16-bit halves, so that every sum stays inside the integers of the       *)
(* checker while the arithmetic remains modulo 2^32.                       *)
(***************************************************************************)
EXTENDS Integers, Sequences, FiniteSets, TLC

(***************************************************************************)
(* Octets and strings                                                      *)
(***************************************************************************)
\* the printable characters 32..95 and 97..126 (the string syntax has no
\* character 96)
AsciiLo == " !\"#$%&'()*+,-./0123456789:;<=>?@ABCDEFGHIJKLMNOPQRSTUVWXYZ[\\]^_"
AsciiHi == "abcdefghijklmnopqrstuvwxyz{|}~"

\* the character at position i (1-based) of the string s, "" outside of it
At(s, i) == IF i >= 1 /\ i <= Len(s) THEN SubSeq(s, i, i) ELSE ""

\* octet value of a printable character
CodeOf(c) ==
  IF \E i \in 1..Len(AsciiLo) : At(AsciiLo, i) = c
  THEN 31 + (CHOOSE i \in 1..Len(AsciiLo) : At(AsciiLo, i) = c)
  ELSE 96 + (CHOOSE i \in 1..Len(AsciiHi) : At(AsciiHi, i) = c)

\* the sequence f with every element computed
Elements(f) == <<>> \o f

\* []byte(s)
Bytes(s) == Elements([i \in 1..Len(s) |-> CodeOf(At(s, i))])

\* the function f restricted to the finite set S with every value computed
RECURSIVE Tabulate(_, _)
Tabulate(S, f) ==
  IF S = {} THEN <<>>
  ELSE LET x == CHOOSE y \in S : TRUE
       IN  (x :> f[x]) @@ Tabulate(S \ {x}, f)

(***************************************************************************)
(* 32-bit word arithmetic of crypto/sha256                                 *)
(***************************************************************************)
Half == 2^16

\* a op b on 4-bit values, bit by bit: op is "xor", "and" or "or"
RECURSIVE Bitwise(_, _, _, _)
Bitwise(op, a, b, n) ==
  IF n = 0 THEN 0
  ELSE (IF op = "xor" THEN (a + b) % 2
        ELSE IF op = "and" THEN (a % 2) * (b % 2)
        ELSE IF (a % 2) + (b % 2) > 0 THEN 1 ELSE 0)
       + 2 * Bitwise(op, a \div 2, b \div 2, n - 1)

\* the three operations on every pair of 4-bit values, computed once
Nibbles(op) ==
  Elements([a \in 1..16 |-> Elements([b \in 1..16 |-> Bitwise(op, a - 1, b - 1, 4)])])

Xor4 == Nibbles("xor")
And4 == Nibbles("and")
Or4 == Nibbles("or")

\* a 16-bit operation from its table on 4-bit values
Wide(t, a, b) ==
  t[(a % 16) + 1][(b % 16) + 1]
    + 16 * t[((a \div 16) % 16) + 1][((b \div 16) % 16) + 1]
    + 256 * t[((a \div 256) % 16) + 1][((b \div 256) % 16) + 1]
    + 4096 * t[(a \div 4096) + 1][(b \div 4096) + 1]

Xor16(a, b) == Wide(Xor4, a, b)
And16(a, b) == Wide(And4, a, b)
Or16(a, b) == Wide(Or4, a, b)

Xor(x, y) == <<Xor16(x[1], y[1]), Xor16(x[2], y[2])>>
And(x, y) == <<And16(x[1], y[1]), And16(x[2], y[2])>>
Not(x) == <<(Half - 1) - x[1], (Half - 1) - x[2]>>

\* x + y modulo 2^32
Add(x, y) ==
  LET lo == x[2] + y[2]
  IN  <<(x[1] + y[1] + (lo \div Half)) % Half, lo % Half>>

\* bits.RotateLeft32(x, -n), 0 <= n < 32
Rotr(x, n) ==
  LET y == IF n >= 16 THEN <<x[2], x[1]>> ELSE x
      m == n % 16
  IN  IF m = 0 THEN y
      ELSE <<(y[1] \div (2^m)) + ((y[2] % (2^m)) * (2^(16 - m))),
             (y[2] \div (2^m)) + ((y[1] % (2^m)) * (2^(16 - m)))>>

\* x >> n, 0 < n < 16
Shr(x, n) ==
  <<x[1] \div (2^n), (x[2] \div (2^n)) + ((x[1] % (2^n)) * (2^(16 - n)))>>

K256 ==
  <<
    <<17034, 12184>>, <<28983, 17553>>, <<46528, 64463>>, <<59829, 56229>>,
    <<14678, 49755>>, <<23025, 4593>>, <<37439, 33444>>, <<43804, 24277>>,
    <<55303, 43672>>, <<4739, 23297>>, <<9265, 34238>>, <<21772, 32195>>,
    <<29374, 23924>>, <<32990, 45566>>, <<39900, 1703>>, <<49563, 61812>>,
    <<58523, 27073>>, <<61374, 18310>>, <<4033, 40390>>, <<9228, 41420>>,
    <<11753, 11375>>, <<19060, 33962>>, <<23728, 43484>>, <<30457, 35034>>,
    <<38974, 20818>>, <<43057, 50797>>, <<45059, 10184>>, <<48985, 32711>>,
    <<50912, 3059>>, <<54695, 37191>>, <<1738, 25425>>, <<5161, 10599>>,
    <<10167, 2693>>, <<11803, 8504>>, <<19756, 28156>>, <<21304, 3347>>,
    <<25866, 29524>>, <<30314, 2747>>, <<33218, 51502>>, <<37490, 11397>>,
    <<41663, 59553>>, <<43034, 26187>>, <<49739, 35696>>, <<51052, 20899>>,
    <<53650, 59417>>, <<54937, 1572>>, <<62478, 13701>>, <<4202, 41072>>,
    <<6564, 49430>>, <<7735, 27656>>, <<10056, 30540>>, <<13488, 48309>>,
    <<14620, 3251>>, <<20184, 43594>>, <<23452, 51791>>, <<26670, 28659>>,
    <<29839, 33518>>, <<30885, 25455>>, <<33992, 30740>>, <<36039, 520>>,
    <<37054, 65530>>, <<42064, 27883>>, <<48889, 41975>>, <<50801, 30962>> >>

H256 ==
  <<
    <<27145, 58983>>, <<47975, 44677>>, <<15470, 62322>>, <<42319, 62778>>,
    <<20750, 21119>>, <<39685, 26764>>, <<8067, 55723>>, <<23520, 52505>> >>

\* message schedule: the next word w[i] = sigma1(w[i-2]) + w[i-7] +
\* sigma0(w[i-15]) + w[i-16] of the words w computed so far
NextWord(w) ==
  LET i  == Len(w) + 1
      v1 == w[i - 2]
      t1 == Xor(Xor(Rotr(v1, 17), Rotr(v1, 19)), Shr(v1, 10))
      v2 == w[i - 15]
      t2 == Xor(Xor(Rotr(v2, 7), Rotr(v2, 18)), Shr(v2, 3))
  IN  Add(Add(t1, w[i - 7]), Add(t2, w[i - 16]))

\* w extended by its next n words (n >= 1); the first half is computed
\* before the second half starts
RECURSIVE Schedule(_, _)
Schedule(w, n) ==
  IF n = 1 THEN Append(w, NextWord(w))
  ELSE CHOOSE r \in {Schedule(v, n - (n \div 2)) :
                       v \in {Schedule(w, n \div 2)}} : TRUE

\* round i over the working variables s = <<a, b, c, d, e, f, g, h>>
Round(s, w, i) ==
  LET a == s[1]
      b == s[2]
      c == s[3]
      e == s[5]
      f == s[6]
      g == s[7]
      t1 == Add(Add(Add(s[8],
                Xor(Xor(Rotr(e, 6), Rotr(e, 11)), Rotr(e, 25))),
                Xor(And(e, f), And(Not(e), g))),
                Add(K256[i], w[i]))
      t2 == Add(Xor(Xor(Rotr(a, 2), Rotr(a, 13)), Rotr(a, 22)),
                Xor(Xor(And(a, b), And(a, c)), And(b, c)))
  IN  <<Add(t1, t2), a, b, c, Add(s[4], t1), e, f, g>>

\* rounds lo..hi in order; the working variables of the first half are
\* computed before the second half starts
RECURSIVE Rounds(_, _, _, _)
Rounds(s, w, lo, hi) ==
  IF lo = hi THEN Round(s, w, lo)
  ELSE LET mid == (lo + hi) \div 2
       IN  CHOOSE r \in {Rounds(n, w, mid + 1, hi) :
                           n \in {Rounds(s, w, lo, mid)}} : TRUE

\* the 16 big-endian words of the 64-octet block p
Words(p) ==
  Elements([j \in 1..16 |-> <<p[4 * j - 3] * 256 + p[4 * j - 2],
                              p[4 * j - 1] * 256 + p[4 * j]>>])

\* h plus the working variables s, word by word
AddAll(h, s) ==
  <<Add(h[1], s[1]), Add(h[2], s[2]), Add(h[3], s[3]), Add(h[4], s[4]),
    Add(h[5], s[5]), Add(h[6], s[6]), Add(h[7], s[7]), Add(h[8], s[8])>>

\* blockGeneric: fold one 64-octet block p into the chaining value h; the
\* schedule is computed before the rounds start
Block(h, p) ==
  CHOOSE r \in {AddAll(h, Rounds(h, w, 1, 64)) :
                  w \in {Schedule(Words(p), 48)}} : TRUE

RECURSIVE Blocks(_, _)
Blocks(h, p) ==
  IF Len(p) = 0 THEN h
  ELSE CHOOSE r \in {Blocks(n, SubSeq(p, 65, Len(p))) :
                       n \in {Block(h, SubSeq(p, 1, 64))}} : TRUE

\* n zero octets
Zeros(n) == Elements([i \in 1..n |-> 0])

\* the 32 octets of the chaining value h, big-endian
Octets(h) ==
  Elements([i \in 1..32 |->
    IF i % 2 = 1 THEN h[((i - 1) \div 4) + 1][(((i - 1) % 4) \div 2) + 1] \div 256
    ELSE h[((i - 1) \div 4) + 1][(((i - 1) % 4) \div 2) + 1] % 256])

\* sha256.Sum256 of the octet sequence msg (shorter than 8192 octets):
\* padding 0x80, zeros up to 56 mod 64, then the bit length on 8 octets
Sum256(msg) ==
  CHOOSE r \in {Octets(h) :
                  h \in {Blocks(H256,
                           msg \o <<128>> \o Zeros((119 - (Len(msg) % 64)) % 64)
                               \o Zeros(6)
                               \o <<(Len(msg) * 8) \div 256, (Len(msg) * 8) % 256>>)}} : TRUE

\* the key (at most one block long) zero-padded to the block size of 64
\* octets, every octet xored with pad
KeyPad(key, pad) ==
  Elements([i \in 1..64 |-> Xor16((key \o Zeros(64 - Len(key)))[i], pad)])

\* crypto/hmac with sha256.New: H((key xor opad) || H((key xor ipad) || msg));
\* the inner sum is computed before the outer one starts
HmacSum(key, msg) ==
  CHOOSE r \in {Sum256(KeyPad(key, 92) \o inner) :
                  inner \in {Sum256(KeyPad(key, 54) \o msg)}} : TRUE

(***************************************************************************)
(* encoding/base64: StdEncoding.EncodeToString                             *)
(***************************************************************************)
encodeStd == "ABCDEFGHIJKLMNOPQRSTUVWXYZabcdefghijklmnopqrstuvwxyz0123456789+/"

Enc(v) == At(encodeStd, v + 1)

RECURSIVE EncodeToString(_)
EncodeToString(src) ==
  IF Len(src) = 0 THEN ""
  ELSE IF Len(src) = 1 THEN
    Enc(src[1] \div 4) \o Enc((src[1] % 4) * 16) \o "=="
  ELSE IF Len(src) = 2 THEN
    Enc(src[1] \div 4) \o Enc((src[1] % 4) * 16 + (src[2] \div 16))
      \o Enc((src[2] % 16) * 4) \o "="
  ELSE
    Enc(src[1] \div 4) \o Enc((src[1] % 4) * 16 + (src[2] \div 16))
      \o Enc((src[2] % 16) * 4 + (src[3] \div 64)) \o Enc(src[3] % 64)
      \o EncodeToString(SubSeq(src, 4, Len(src)))

(***************************************************************************)
(* encoding/json: Unmarshal of the request body into                       *)
(*   struct { LineItems []struct { Sku string `json:"sku"` }               *)
(*            `json:"line_items"` }                                        *)
(* A JSON value is a record [t, s, kids]: its kind, the text of a string,  *)
(* and the members <<name, value>> of an object or elements of an array.   *)
(* Bodies are printable ASCII; of the escapes only \", \\ and \/ occur.    *)
(***************************************************************************)
JValue(t, s, kids) == [t |-> t, s |-> s, kids |-> kids]

\* result of scanning one value: ok, the position after it, the value
Scanned(pos, val) == [ok |-> TRUE, pos |-> pos, val |-> val]
SyntaxError(pos) == [ok |-> FALSE, pos |-> pos, val |-> JValue("null", "", <<>>)]

Digits == {"0", "1", "2", "3", "4", "5", "6", "7", "8", "9"}

RECURSIVE SkipSpace(_, _)
SkipSpace(s, i) == IF At(s, i) = " " THEN SkipSpace(s, i + 1) ELSE i

RECURSIVE SkipDigits(_, _)
SkipDigits(s, i) == IF At(s, i) \in Digits THEN SkipDigits(s, i + 1) ELSE i

\* position of the quote closing the string whose first character is at i,
\* 0 when the string is not terminated or holds an escape outside \" \\ \/
RECURSIVE CloseQuote(_, _)
CloseQuote(s, i) ==
  IF i > Len(s) THEN 0
  ELSE IF At(s, i) = "\"" THEN i
  ELSE IF At(s, i) = "\\"
       THEN IF At(s, i + 1) \in {"\"", "\\", "/"}
            THEN CloseQuote(s, i + 2) ELSE 0
  ELSE CloseQuote(s, i + 1)

\* the text between the quotes with its escapes replaced
RECURSIVE Unquote(_)
Unquote(s) ==
  IF Len(s) = 0 THEN ""
  ELSE IF At(s, 1) = "\\" THEN At(s, 2) \o Unquote(SubSeq(s, 3, Len(s)))
  ELSE At(s, 1) \o Unquote(SubSeq(s, 2, Len(s)))

\* -? (0 | [1-9][0-9]*) (. [0-9]+)? ([eE] [+-]? [0-9]+)?
ScanNumber(s, i) ==
  LET j0 == IF At(s, i) = "-" THEN i + 1 ELSE i
      j1 == IF At(s, j0) = "0" THEN j0 + 1 ELSE SkipDigits(s, j0)
      j2 == IF At(s, j1) = "." THEN SkipDigits(s, j1 + 1) ELSE j1
      e0 == IF At(s, j2 + 1) \in {"+", "-"} THEN j2 + 2 ELSE j2 + 1
      j3 == IF At(s, j2) \in {"e", "E"} THEN SkipDigits(s, e0) ELSE j2
  IN  IF j1 = j0 THEN SyntaxError(j0)
      ELSE IF At(s, j1) = "." /\ j2 = j1 + 1 THEN SyntaxError(j2)
      ELSE IF At(s, j2) \in {"e", "E"} /\ j3 = e0 THEN SyntaxError(j3)
      ELSE Scanned(j3, JValue("number", SubSeq(s, i, j3 - 1), <<>>))

RECURSIVE ScanValue(_, _)
RECURSIVE ScanMembers(_, _, _)
RECURSIVE ScanElements(_, _, _)

\* the members of an object, the first name expected at i
ScanMembers(s, i, acc) ==
  LET q == CloseQuote(s, i + 1)
      c == SkipSpace(s, q + 1)
      v == ScanValue(s, c + 1)
      k == SkipSpace(s, v.pos)
      m == Append(acc, <<Unquote(SubSeq(s, i + 1, q - 1)), v.val>>)
  IN  IF At(s, i) # "\"" \/ q = 0 THEN SyntaxError(i)
      ELSE IF At(s, c) # ":" THEN SyntaxError(c)
      ELSE IF ~v.ok THEN v
      ELSE IF At(s, k) = "," THEN ScanMembers(s, SkipSpace(s, k + 1), m)
      ELSE IF At(s, k) = "}" THEN Scanned(k + 1, JValue("object", "", m))
      ELSE SyntaxError(k)

\* the elements of an array, the first one expected at i
ScanElements(s, i, acc) ==
  LET v == ScanValue(s, i)
      k == SkipSpace(s, v.pos)
      m == Append(acc, v.val)
  IN  IF ~v.ok THEN v
      ELSE IF At(s, k) = "," THEN ScanElements(s, k + 1, m)
      ELSE IF At(s, k) = "]" THEN Scanned(k + 1, JValue("array", "", m))
      ELSE SyntaxError(k)

\* one JSON value starting at or after i
ScanValue(s, i0) ==
  LET i == SkipSpace(s, i0)
      c == At(s, i)
      n == SkipSpace(s, i + 1)
      q == CloseQuote(s, i + 1)
  IN  IF c = "{" THEN
        IF At(s, n) = "}" THEN Scanned(n + 1, JValue("object", "", <<>>))
        ELSE ScanMembers(s, n, <<>>)
      ELSE IF c = "[" THEN
        IF At(s, n) = "]" THEN Scanned(n + 1, JValue("array", "", <<>>))
        ELSE ScanElements(s, n, <<>>)
      ELSE IF c = "\"" THEN
        IF q = 0 THEN SyntaxError(i)
        ELSE Scanned(q + 1, JValue("string", Unquote(SubSeq(s, i + 1, q - 1)), <<>>))
      ELSE IF c = "-" \/ c \in Digits THEN ScanNumber(s, i)
      ELSE IF SubSeq(s \o "    ", i, i + 3) = "true" THEN
        Scanned(i + 4, JValue("true", "", <<>>))
      ELSE IF SubSeq(s \o "     ", i, i + 4) = "false" THEN
        Scanned(i + 5, JValue("false", "", <<>>))
      ELSE IF SubSeq(s \o "    ", i, i + 3) = "null" THEN
        Scanned(i + 4, JValue("null", "", <<>>))
      ELSE SyntaxError(i)

\* strings.ToLower on ASCII letters: field names match case-insensitively
Upper == "ABCDEFGHIJKLMNOPQRSTUVWXYZ"
Lower == "abcdefghijklmnopqrstuvwxyz"

RECURSIVE ToLower(_)
ToLower(s) ==
  IF Len(s) = 0 THEN ""
  ELSE (IF \E i \in 1..Len(Upper) : At(Upper, i) = At(s, 1)
        THEN At(Lower, CHOOSE i \in 1..Len(Upper) : At(Upper, i) = At(s, 1))
        ELSE At(s, 1)) \o ToLower(SubSeq(s, 2, Len(s)))

\* result of decoding: err is "" (nil) or the kind of error, skus the Sku
\* of every element of LineItems in order
Decoded(err, skus) == [err |-> err, skus |-> skus]

\* first error wins: decoding goes on after a type error and reports it
FirstErr(e1, e2) == IF e1 # "" THEN e1 ELSE e2

\* members of one line item: "sku" takes a string, null leaves the field
RECURSIVE DecodeItemMembers(_, _)
DecodeItemMembers(ms, acc) ==
  IF Len(ms) = 0 THEN acc
  ELSE LET name == ms[1][1]
           val  == ms[1][2]
           nxt  == IF ToLower(name) # "sku" \/ val.t = "null" THEN acc
                   ELSE IF val.t = "string" THEN Decoded(acc.err, val.s)
                   ELSE Decoded(FirstErr(acc.err, "UnmarshalTypeError"), acc.skus)
       IN  DecodeItemMembers(Tail(ms), nxt)

\* one element of line_items into struct { Sku string }: [err, skus] with
\* skus the Sku string of the element
DecodeItem(v) ==
  IF v.t = "object" THEN DecodeItemMembers(v.kids, Decoded("", ""))
  ELSE IF v.t = "null" THEN Decoded("", "")
  ELSE Decoded("UnmarshalTypeError", "")

RECURSIVE DecodeItems(_, _)
DecodeItems(vs, acc) ==
  IF Len(vs) = 0 THEN acc
  ELSE LET it == DecodeItem(vs[1])
       IN  DecodeItems(Tail(vs),
             Decoded(FirstErr(acc.err, it.err), Append(acc.skus, it.skus)))

\* members of the body: "line_items" takes an array or null
RECURSIVE DecodeBodyMembers(_, _)
DecodeBodyMembers(ms, acc) ==
  IF Len(ms) = 0 THEN acc
  ELSE LET name == ms[1][1]
           val  == ms[1][2]
           nxt  == IF ToLower(name) # "line_items" THEN acc
                   ELSE IF val.t = "null" THEN Decoded(acc.err, <<>>)
                   ELSE IF val.t = "array"
                     THEN DecodeItems(val.kids, Decoded(acc.err, <<>>))
                   ELSE Decoded(FirstErr(acc.err, "UnmarshalTypeError"), acc.skus)
       IN  DecodeBodyMembers(Tail(ms), nxt)

\* json.Unmarshal(data, &body): the whole input is checked first, then decoded
Unmarshal(data) ==
  LET r == ScanValue(data, 1)
  IN  IF ~r.ok \/ SkipSpace(data, r.pos) <= Len(data)
        THEN Decoded("SyntaxError", <<>>)
      ELSE IF r.val.t = "object"
        THEN DecodeBodyMembers(r.val.kids, Decoded("", <<>>))
      ELSE IF r.val.t = "null" THEN Decoded("", <<>>)
      ELSE Decoded("UnmarshalTypeError", <<>>)

(***************************************************************************)
(* crypto/hmac.Equal and crypto/subtle.ConstantTimeCompare                 *)
(***************************************************************************)
\* v |= x[i] ^ y[i] over the positions lo..hi, the two halves of the range
\* combined
RECURSIVE OrXor(_, _, _, _)
OrXor(x, y, lo, hi) ==
  IF lo > hi THEN 0
  ELSE IF lo = hi THEN Xor16(x[lo], y[lo])
  ELSE Or16(OrXor(x, y, lo, (lo + hi) \div 2),
            OrXor(x, y, ((lo + hi) \div 2) + 1, hi))

\* a comparison over the common prefix only, without the length check
ConstantTimeComparePrefix(x, y) ==
  LET n == IF Len(x) < Len(y) THEN Len(x) ELSE Len(y)
  IN  IF OrXor(x, y, 1, n) = 0 THEN 1 ELSE 0

ConstantTimeCompare(x, y) ==
  IF Len(x) # Len(y) THEN 0
  ELSE IF OrXor(x, y, 1, Len(x)) = 0 THEN 1 ELSE 0

Equal(mac1, mac2) == ConstantTimeCompare(mac1, mac2) = 1

(***************************************************************************)
(* Inputs: request bodies, secrets, content types                          *)
(***************************************************************************)
BodyOne        == "{\"line_items\":[{\"sku\":\"SKU2006-002\"}]}"
BodyMixed      == "{\"line_items\":[{\"sku\":\"SKU2006-001\"},{\"sku\":\"SKU-UNKNOWN\"}]}"
BodyMixedLate  == "{\"line_items\":[{\"sku\":\"SKU-UNKNOWN\"},{\"sku\":\"SKU2006-003\"}]}"
BodyTwo        == "{\"line_items\":[{\"sku\":\"SKU2006-001\"},{\"sku\":\"SKU2006-003\"}]}"
BodyNoItems    == "{\"line_items\":[]}"
BodyUnknown    == "{\"line_items\":[{\"sku\":\"SKU-UNKNOWN\"}]}"
BodyTruncated  == "{\"line_items\":[{\"sku\":\"SKU2006-002\"}"
BodyWrongShape == "{\"line_items\":{\"sku\":\"SKU2006-002\"}}"

Bodies ==
  {BodyOne, BodyMixed, BodyMixedLate, BodyTwo, BodyNoItems, BodyUnknown,
   BodyTruncated, BodyWrongShape}

\* const Signature = "": the shared secret of the program
Signature == ""

\* secrets the signature check is exercised with
Keys == {Signature, "shpss_secret"}

MIMEApplicationJSON == "application/json"
MIMETextPlain == "text/plain"
ContentTypes == {MIMEApplicationJSON, MIMETextPlain}

(***************************************************************************)
(* The signature block of the POST /webhook handler                        *)
(***************************************************************************)
\* h := hmac.New(sha256.New, key); h.Write(body); d := h.Sum(nil);
\* m := base64.StdEncoding.EncodeToString(d)
Digest(key, body) == EncodeToString(HmacSum(Bytes(key), Bytes(body)))

\* m for every secret and body considered, computed once
Digests ==
  Tabulate(Keys, [k \in Keys |->
                    Tabulate(Bodies, [b \in Bodies |-> Digest(k, b)])])

\* hmac.Equal([]byte(m), []byte(signature))
Verify(key, body, signature) ==
  Equal(Bytes(Digests[key][body]), Bytes(signature))

(***************************************************************************)
(* fiber: c.BodyParser and the default error handler of fiber.New()        *)
(***************************************************************************)
\* the body of every request considered, decoded once
Unmarshalled == Tabulate(Bodies, [b \in Bodies |-> Unmarshal(b)])

\* strings.HasPrefix
HasPrefix(s, prefix) ==
  Len(s) >= Len(prefix) /\ SubSeq(s, 1, Len(prefix)) = prefix

\* c.BodyParser(&body): JSON is decoded when the content type says so; a
\* content type with no decoder gives ErrUnprocessableEntity
BodyParser(ctype, body) ==
  IF HasPrefix(ctype, MIMEApplicationJSON) THEN Unmarshalled[body]
  ELSE Decoded("ErrUnprocessableEntity", <<>>)

StatusOK == 200
StatusUnauthorized == 401
StatusUnprocessableEntity == 422
StatusInternalServerError == 500

\* an error returned by the handler: the code of a *fiber.Error, else 500
ErrorHandler(err) ==
  IF err = "ErrUnprocessableEntity" THEN StatusUnprocessableEntity
  ELSE StatusInternalServerError

(***************************************************************************)
(* Connection, MemConnection, Services                                     *)
(***************************************************************************)
\* implementations of the Connection interface: the one of the repository
\* and one whose List fails
MemConnection == "MemConnection"
ErrConnection == "ErrConnection"
Connections == {MemConnection, ErrConnection}

\* List() ([]string, error)
List(c) ==
  IF c = MemConnection
    THEN [skus |-> <<"SKU2006-001", "SKU2006-002", "SKU2006-003">>, err |-> ""]
  ELSE [skus |-> <<>>, err |-> "LookupError"]

\* a range loop whose test is s != sku
RECURSIVE RangeSkusNotEqual(_, _, _)
RangeSkusNotEqual(skus, sku, i) ==
  IF i > Len(skus) THEN [err |-> "", printed |-> <<>>]
  ELSE IF skus[i] # sku THEN [err |-> "Found wanted sku", printed |-> <<sku>>]
  ELSE RangeSkusNotEqual(skus, sku, i + 1)

\* the range loop of Services.Webhook from position i on: the first s == sku
\* prints the sku and returns the error "Found wanted sku"
RECURSIVE RangeSkus(_, _, _)
RangeSkus(skus, sku, i) ==
  IF i > Len(skus) THEN [err |-> "", printed |-> <<>>]
  ELSE IF skus[i] = sku THEN [err |-> "Found wanted sku", printed |-> <<sku>>]
  ELSE RangeSkus(skus, sku, i + 1)

\* Services.Webhook(sku) with s.database = c: skus, _ := s.database.List()
Webhook(c, sku) == RangeSkus(List(c).skus, sku, 1)

(***************************************************************************)
(* State                                                                   *)
(***************************************************************************)
\* number of requests in flight at the same time
NumReqs == 2
Reqs == 1..NumReqs

VARIABLES
  database,   \* services.database, the Connection the catalog is read from
  req,        \* per request: position in the handler, input, locals, response
  vcall       \* one call of the signature check on its own: input and result

vars == <<database, req, vcall>>

\* a handler that has not received its request
Idle ==
  [pc |-> "idle", body |-> "", signature |-> "", ctype |-> "",
   lineItems |-> <<>>, i |-> 0, status |-> 0, notified |-> <<>>, calls |-> 0]

NoCall == [key |-> "", body |-> "", signature |-> "", ret |-> "none"]

\* values of the X-Shopify-Hmac-Sha256 header sent with body b: the right
\* one, the right one of another body, none
Headers(b) ==
  {Digests[Signature][b],
   Digests[Signature][IF b = BodyOne THEN BodyTwo ELSE BodyOne],
   ""}

\* the outcome of the signature block for every body and header considered,
\* computed once
Verified ==
  Tabulate(Bodies, [b \in Bodies |->
    Tabulate(Headers(b), [s \in Headers(b) |-> Verify(Signature, b, s)])])

Init ==
  /\ database = MemConnection
  /\ req = [r \in Reqs |-> Idle]
  /\ vcall = NoCall

(***************************************************************************)
(* POST /webhook                                                           *)
(***************************************************************************)
\* the request reaches the handler
Receive(r) ==
  /\ req[r].pc = "idle"
  /\ \E b \in Bodies :
       \E s \in Headers(b), ct \in ContentTypes :
         req' = [req EXCEPT ![r] = [Idle EXCEPT !.pc = "verify", !.body = b,
                                                !.signature = s, !.ctype = ct]]
  /\ UNCHANGED <<database, vcall>>

\* a signature block that sends 401 and goes on with the body
VerifySignatureNoReturn(r) ==
  /\ req[r].pc = "verify"
  /\ IF ~Verified[req[r].body][req[r].signature]
       THEN req' = [req EXCEPT ![r].status = StatusUnauthorized, ![r].pc = "parse"]
       ELSE req' = [req EXCEPT ![r].pc = "parse"]
  /\ UNCHANGED <<database, vcall>>

\* the signature block: 401 when the header is not the digest of the body
VerifySignature(r) ==
  /\ req[r].pc = "verify"
  /\ IF ~Verified[req[r].body][req[r].signature]
       THEN req' = [req EXCEPT ![r].status = StatusUnauthorized, ![r].pc = "done"]
       ELSE req' = [req EXCEPT ![r].pc = "parse"]
  /\ UNCHANGED <<database, vcall>>

\* a handler that drops the error of c.BodyParser
ParseBodyIgnoresError(r) ==
  /\ req[r].pc = "parse"
  /\ LET p == BodyParser(req[r].ctype, req[r].body)
     IN  req' = [req EXCEPT ![r].lineItems = p.skus, ![r].i = 1,
                             ![r].pc = "loop"]
  /\ UNCHANGED <<database, vcall>>

\* a handler whose body variable is declared outside of it: the parsed line
\* items replace those of every request in its loop
ParseBodyShared(r) ==
  /\ req[r].pc = "parse"
  /\ LET p == BodyParser(req[r].ctype, req[r].body)
     IN  IF p.err # ""
           THEN req' = [req EXCEPT ![r].status = ErrorHandler(p.err),
                                   ![r].pc = "done"]
           ELSE req' = [q \in Reqs |->
                          IF q = r
                            THEN [req[q] EXCEPT !.lineItems = p.skus, !.i = 1,
                                                !.pc = "loop"]
                          ELSE IF req[q].pc = "loop"
                            THEN [req[q] EXCEPT !.lineItems = p.skus]
                          ELSE req[q]]
  /\ UNCHANGED <<database, vcall>>

\* c.BodyParser(&body); an error is returned to fiber's error handler
ParseBody(r) ==
  /\ req[r].pc = "parse"
  /\ LET p == BodyParser(req[r].ctype, req[r].body)
     IN  IF p.err # ""
           THEN req' = [req EXCEPT ![r].status = ErrorHandler(p.err),
                                   ![r].pc = "done"]
           ELSE req' = [req EXCEPT ![r].lineItems = p.skus, ![r].i = 1,
                                   ![r].pc = "loop"]
  /\ UNCHANGED <<database, vcall>>

\* a loop that returns the result of the first Webhook call, nil included
DispatchReturnsFirst(r) ==
  /\ req[r].pc = "loop"
  /\ req[r].i <= Len(req[r].lineItems)
  /\ LET w == Webhook(database, req[r].lineItems[req[r].i])
     IN  req' = [req EXCEPT ![r].calls = @ + 1,
                             ![r].notified = @ \o w.printed,
                             ![r].status = IF w.err # "" THEN ErrorHandler(w.err)
                                           ELSE StatusOK,
                             ![r].pc = "done"]
  /\ UNCHANGED <<database, vcall>>

\* a loop that goes on with the next line item after a match
DispatchContinues(r) ==
  /\ req[r].pc = "loop"
  /\ req[r].i <= Len(req[r].lineItems)
  /\ LET w == Webhook(database, req[r].lineItems[req[r].i])
     IN  req' = [req EXCEPT ![r].calls = @ + 1,
                             ![r].notified = @ \o w.printed,
                             ![r].i = @ + 1]
  /\ UNCHANGED <<database, vcall>>

\* one iteration of the range loop over body.LineItems
Dispatch(r) ==
  /\ req[r].pc = "loop"
  /\ req[r].i <= Len(req[r].lineItems)
  /\ LET w == Webhook(database, req[r].lineItems[req[r].i])
     IN  IF w.err # ""
           THEN req' = [req EXCEPT ![r].calls = @ + 1,
                                   ![r].notified = @ \o w.printed,
                                   ![r].status = ErrorHandler(w.err),
                                   ![r].pc = "done"]
           ELSE req' = [req EXCEPT ![r].calls = @ + 1,
                                   ![r].notified = @ \o w.printed,
                                   ![r].i = @ + 1]
  /\ UNCHANGED <<database, vcall>>

\* the loop is over: c.SendStatus(http.StatusOK)
SendOK(r) ==
  /\ req[r].pc = "loop"
  /\ req[r].i > Len(req[r].lineItems)
  /\ req' = [req EXCEPT ![r].status = StatusOK, ![r].pc = "done"]
  /\ UNCHANGED <<database, vcall>>

Next ==
  \E r \in Reqs :
    \/ Receive(r)
    \/ VerifySignature(r)
    \/ ParseBody(r)
    \/ Dispatch(r)
    \/ SendOK(r)

Spec == Init /\ [][Next]_vars

(***************************************************************************)
(* Services over any implementation of the Connection interface            *)
(***************************************************************************)
InitConn ==
  /\ database \in Connections
  /\ req = [r \in Reqs |-> Idle]
  /\ vcall = NoCall

SpecConn == InitConn /\ [][Next]_vars

(***************************************************************************)
(* The signature check on its own, for every secret, body and signature    *)
(***************************************************************************)
OtherKey(k) == CHOOSE x \in Keys : x # k
OtherBody(b) == IF b = BodyOne THEN BodyTwo ELSE BodyOne

\* signatures presented for secret k and body b: the digest, none, the
\* digest with one character more, with one less, with its first character
\* changed, the digest under another secret, the digest of another body
Presented(k, b) ==
  LET m == Digests[k][b]
  IN  {m, "", m \o "=", SubSeq(m, 1, Len(m) - 1),
       (IF At(m, 1) = "A" THEN "B" ELSE "A") \o SubSeq(m, 2, Len(m)),
       Digests[OtherKey(k)][b], Digests[k][OtherBody(b)]}

InitVerify ==
  /\ database = MemConnection
  /\ req = [r \in Reqs |-> Idle]
  /\ \E k \in Keys, b \in Bodies :
       \E s \in Presented(k, b) :
         vcall = [key |-> k, body |-> b, signature |-> s, ret |-> "none"]

\* the signature block applied to the input
CallVerify ==
  /\ vcall.ret = "none"
  /\ vcall' = [vcall EXCEPT !.ret =
                 IF Verify(vcall.key, vcall.body, vcall.signature)
                 THEN "accept" ELSE "reject"]
  /\ UNCHANGED <<database, req>>

NextVerify == CallVerify

SpecVerify == InitVerify /\ [][NextVerify]_vars


(***************************************************************************)
(* Properties                                                              *)
(***************************************************************************)
Done(r) == req[r].pc = "done"

\* the header of request r is the digest of its body under the secret
Correct(r) == req[r].signature = Digests[Signature][req[r].body]

\* the body of request r parses; Items(r) are the SKUs of its line items
WellFormed(r) == BodyParser(req[r].ctype, req[r].body).err = ""
Items(r) == BodyParser(req[r].ctype, req[r].body).skus

\* the SKU is one of those the catalog lists
InCatalog(sku) ==
  \E k \in 1..Len(List(database).skus) : List(database).skus[k] = sku

\* positions of the line items of r whose SKU is in the catalog
Matches(r) == {k \in 1..Len(Items(r)) : InCatalog(Items(r)[k])}

\* every SKU of a body or of the catalog, and the empty one
AllSkus == {"SKU2006-001", "SKU2006-002", "SKU2006-003", "SKU-UNKNOWN", ""}

\* C1: no line item is dispatched (no Webhook call, no notification) unless
\* the signature header is the digest of the body under the shared secret;
\* a request whose header is not ends with 401, no call and no notification.
C1_SignatureGuardsDispatch ==
  \A r \in Reqs :
    /\ (req[r].calls > 0 \/ req[r].notified # <<>>
          \/ req[r].pc \in {"parse", "loop"}) => Correct(r)
    /\ (Done(r) /\ ~Correct(r)) =>
         /\ req[r].status = StatusUnauthorized
         /\ req[r].calls = 0
         /\ req[r].notified = <<>>

\* a request signed for another body has been answered
C1_Witness ==
  \E r \in Reqs : Done(r) /\ ~Correct(r) /\ req[r].signature # ""

\* C2: the check accepts exactly the signature that equals
\* base64(HMAC-SHA256(secret, body)); every other one, the empty one
\* included, is rejected.
C2_VerifyIffDigest ==
  vcall.ret # "none" =>
    (vcall.ret = "accept" <=> vcall.signature = Digests[vcall.key][vcall.body])

\* the digest of {"line_items":[{"sku":"SKU2006-002"}]} under the empty
\* secret has been presented and accepted
C2_Witness ==
  /\ vcall.ret = "accept"
  /\ vcall.body = BodyOne
  /\ vcall.signature = "1yGzlFU2qZQkeZ5Ac+1jyEGfpPQnLhLnvkI7BgfIDO4="

\* C3: a correctly signed request with a well-formed body is answered with
\* 200 whether or not a SKU matched; the body with SKU2006-002 gives 200 and
\* one notification for SKU2006-002.
C3_ValidRequestGets200 ==
  \A r \in Reqs :
    (Done(r) /\ Correct(r) /\ WellFormed(r)) =>
      /\ req[r].status = StatusOK
      /\ req[r].body = BodyOne => req[r].notified = <<"SKU2006-002">>

\* C4: a verified event with two distinct catalog SKUs triggers two
\* notifications, one per matched line item.
C4_TwoMatchesTwoNotifications ==
  \A r \in Reqs :
    (Done(r) /\ Correct(r) /\ WellFormed(r) /\ Cardinality(Matches(r)) = 2) =>
      Len(req[r].notified) = 2

\* C5: a verified event with exactly one line item in the catalog triggers
\* exactly one notification, for that SKU, wherever the item sits.
C5_OneMatchOneNotification ==
  \A r \in Reqs :
    (Done(r) /\ Correct(r) /\ WellFormed(r) /\ Cardinality(Matches(r)) = 1) =>
      req[r].notified = <<Items(r)[CHOOSE k \in Matches(r) : TRUE]>>

\* the event whose second line item is the catalog one has been processed
C5_Witness ==
  \E r \in Reqs :
    /\ Done(r) /\ Correct(r) /\ WellFormed(r)
    /\ Matches(r) = {2}

\* C6: a verified event none of whose SKUs is in the catalog (or with no line
\* item) triggers no notification and ends with 200; Webhook returns nil for
\* every SKU outside the catalog.
C6_NoMatchNoNotification ==
  /\ \A r \in Reqs :
       (Done(r) /\ Correct(r) /\ WellFormed(r) /\ Matches(r) = {}) =>
         /\ req[r].notified = <<>>
         /\ req[r].status = StatusOK
         /\ req[r].calls = Len(Items(r))
  /\ \A sku \in AllSkus :
       ~InCatalog(sku) =>
         Webhook(database, sku) = [err |-> "", printed |-> <<>>]

\* an event with one unknown SKU and an event without line items have been
\* processed
C6_Witness ==
  \E r, q \in Reqs :
    /\ Done(r) /\ Correct(r) /\ WellFormed(r) /\ Matches(r) = {}
    /\ Len(Items(r)) > 0
    /\ Done(q) /\ Correct(q) /\ WellFormed(q) /\ Items(q) = <<>>

\* C7: when List returns an error, a request that reaches the dispatch ends
\* with a server error, never with 200.
C7_CatalogFailureSurfaces ==
  \A r \in Reqs :
    (Done(r) /\ req[r].calls > 0 /\ List(database).err # "") =>
      req[r].status >= StatusInternalServerError

\* C8: a correctly signed request whose body does not parse ends with a
\* status that is neither 200 nor 401, with no call and no notification.
C8_MalformedRejected ==
  \A r \in Reqs :
    (Done(r) /\ Correct(r) /\ ~WellFormed(r)) =>
      /\ req[r].status \notin {0, StatusOK, StatusUnauthorized}
      /\ req[r].calls = 0
      /\ req[r].notified = <<>>

\* a correctly signed body whose line_items is not an array has been answered
C8_Witness ==
  \E r \in Reqs :
    /\ Done(r) /\ Correct(r)
    /\ req[r].body = BodyWrongShape /\ req[r].ctype = MIMEApplicationJSON

\* the loop over the items from position i on, run without interruption
RECURSIVE AloneLoop(_, _)
AloneLoop(items, i) ==
  IF i > Len(items) THEN [status |-> StatusOK, notified |-> <<>>]
  ELSE LET w == Webhook(database, items[i])
       IN  IF w.err # ""
             THEN [status |-> ErrorHandler(w.err), notified |-> w.printed]
           ELSE AloneLoop(items, i + 1)

\* response and notifications of the handler run alone on one request
Alone(body, signature, ctype) ==
  IF ~Verified[body][signature]
    THEN [status |-> StatusUnauthorized, notified |-> <<>>]
  ELSE LET p == BodyParser(ctype, body)
       IN  IF p.err # "" THEN [status |-> ErrorHandler(p.err), notified |-> <<>>]
           ELSE AloneLoop(p.skus, 1)

\* C9: under every interleaving, the status and the notifications of a
\* request are those of the handler run alone on it, and no step changes the
\* connection the catalog is read from.
C9_Independent ==
  /\ [](\A r \in Reqs :
          Done(r) =>
            [status |-> req[r].status, notified |-> req[r].notified]
              = Alone(req[r].body, req[r].signature, req[r].ctype))
  /\ [][database' = database]_vars

\* two requests have been answered while both were in flight, one of them
\* with a notification
C9_Witness ==
  \E r, q \in Reqs :
    /\ r # q /\ Done(r) /\ Done(q)
    /\ req[r].notified # <<>> /\ req[q].status = StatusOK

\* C10: line items are checked in input order and the first one in the
\* catalog ends the processing: one notification for it, as many Webhook
\* calls as its position, no later item checked; Webhook returns an error
\* exactly for the SKUs of the catalog; at most one notification a request.
C10_FirstMatchStops ==
  /\ \A r \in Reqs :
       /\ Len(req[r].notified) <= 1
       /\ req[r].pc = "loop" =>
            /\ req[r].calls = req[r].i - 1
            /\ \A k \in 1..(req[r].i - 1) : k \notin Matches(r)
       /\ (Done(r) /\ Correct(r) /\ WellFormed(r) /\ Matches(r) # {}) =>
            LET first == CHOOSE k \in Matches(r) : \A j \in Matches(r) : k <= j
            IN  /\ req[r].notified = <<Items(r)[first]>>
                /\ req[r].calls = first
  /\ \A sku \in AllSkus :
       Webhook(database, sku).err # "" <=> InCatalog(sku)

\* the event with two catalog SKUs has been processed
C10_Witness ==
  \E r \in Reqs :
    /\ Done(r) /\ Correct(r) /\ WellFormed(r)
    /\ Cardinality(Matches(r)) = 2
====
